---- MODULE Spec2Model ----
(***************************************************************************)
(* Habit tracker back end: completion logs, the per-habit streak/stats     *)
(* cache (Habit.updateStats), the log-level streak query                   *)
(* (Log.getStreakInfo), the category rollup (Category.updateStats) and the *)
(* route handlers that trigger them.                                       *)
(*                                                                         *)
(* Time is counted in ticks, TicksPerDay ticks to a calendar day; a date   *)
(* normalised to midnight UTC is a multiple of TicksPerDay.                *)
(***************************************************************************)
EXTENDS Integers, Sequences, FiniteSets, TLC

VARIABLES logs, habits, categories, now, last, hist, out, user, procs, note

vars == <<logs, habits, categories, now, last, hist, out, user, procs, note>>

-----------------------------------------------------------------------------
(* Bounds *)

\* days on which the request handlers may place a log
MaxLogDay == 2
\* days a drawn log history may span (pure streak functions)
MaxDay == 5

(* Program constants *)

\* a day, 1000 * 60 * 60 * 24 ms in the source, counted in ticks
TicksPerDay == 2

\* trailing window of Habit.updateStats and Category.updateStats, in days
WindowDays == 30
\* Log.getStreakInfo reads at most this many logs
StreakLimit == 365

\* null / undefined
NULL == 0 - 1

-----------------------------------------------------------------------------
(* Arithmetic helpers *)

Max(a, b) == IF a >= b THEN a ELSE b

Abs(a) == IF a >= 0 THEN a ELSE 0 - a

\* Math.ceil(p / q) for p >= 0, q > 0
CeilDiv(p, q) == (p + q - 1) \div q

\* Math.round(p / q) for p >= 0, q > 0: halves round up
RoundDiv(p, q) == (2 * p + q) \div (2 * q)

\* date.setUTCHours(0, 0, 0, 0)
StartOfDay(t) == (t \div TicksPerDay) * TicksPerDay

\* the tick at midnight of day d
DayTick(d) == d * TicksPerDay

-----------------------------------------------------------------------------
(* Queries *)

\* Log.find({ habit })
LogsOf(L, h) == {l \in L : l.habit = h}

\* .sort({ date: -1 })
RECURSIVE SortByDateDesc(_)
SortByDateDesc(S) ==
  IF S = {} THEN <<>>
  ELSE LET m == CHOOSE x \in S : \A y \in S : y.date <= x.date
       IN  <<m>> \o SortByDateDesc(S \ {m})

\* .limit(n)
Limit(s, n) == IF Len(s) <= n THEN s ELSE SubSeq(s, 1, n)

SeqToSet(s) == {s[i] : i \in DOMAIN s}

\* the query without its habit filter
FindLogs_AllHabits(L, h) == SortByDateDesc(L)

\* Log.find({ habit: h }).sort({ date: -1 })
FindLogs(L, h) == SortByDateDesc(LogsOf(L, h))

-----------------------------------------------------------------------------
(* Habit.updateStats *)

\* habitSchema.methods.isConsecutiveDay
isConsecutiveDay(date1, date2) ==
  CeilDiv(Abs(date1 - date2), TicksPerDay) = 1

\* the streak loop of Habit.updateStats over sortedLogs[i..]
RECURSIVE HabitStreakLoop(_, _, _)
HabitStreakLoop(sortedLogs, i, acc) ==
  IF i > Len(sortedLogs) THEN acc
  ELSE
    LET log == sortedLogs[i] IN
    IF log.completed THEN
      LET lcd  == IF acc.lastCompletedDate = NULL THEN log.date
                  ELSE acc.lastCompletedDate
          temp == acc.tempStreak + 1
          cur  == IF (i = 1 \/ isConsecutiveDay(sortedLogs[i - 1].date, log.date))
                     /\ acc.currentStreak = 0
                  THEN temp ELSE acc.currentStreak
      IN  HabitStreakLoop(sortedLogs, i + 1,
            [acc EXCEPT !.lastCompletedDate = lcd,
                        !.tempStreak = temp,
                        !.currentStreak = cur])
    ELSE
      HabitStreakLoop(sortedLogs, i + 1,
            [acc EXCEPT !.longestStreak = Max(acc.longestStreak, acc.tempStreak),
                        !.tempStreak = 0])

StreakAcc0 ==
  [currentStreak |-> 0, longestStreak |-> 0, tempStreak |-> 0,
   lastCompletedDate |-> NULL]

\* the streak without the Math.max that closes the loop
HabitStreak_NoClosingMax(logSeq) ==
  LET sortedLogs == SortByDateDesc(SeqToSet(logSeq))
      acc        == HabitStreakLoop(sortedLogs, 1, StreakAcc0)
  IN  [currentStreak     |-> acc.currentStreak,
       longestStreak     |-> acc.longestStreak,
       lastCompletedDate |-> acc.lastCompletedDate]

\* currentStreak, longestStreak, lastCompletedDate as Habit.updateStats
\* has them after the loop and the closing Math.max
HabitStreak(logSeq) ==
  LET sortedLogs == SortByDateDesc(SeqToSet(logSeq))
      acc        == HabitStreakLoop(sortedLogs, 1, StreakAcc0)
  IN  [currentStreak     |-> acc.currentStreak,
       longestStreak     |-> Max(acc.longestStreak, acc.tempStreak),
       lastCompletedDate |-> acc.lastCompletedDate]

\* reduce((sum, log) => sum + (log.value || 0), 0)
RECURSIVE SumValues(_)
SumValues(s) ==
  IF s = <<>> THEN 0
  ELSE (IF Head(s).value = NULL THEN 0 ELSE Head(s).value) + SumValues(Tail(s))

\* logs.filter(log => log.completed)
CompletedLogs(logSeq) == SelectSeq(logSeq, LAMBDA l : l.completed)

\* totalCompletions
TotalCompletions_AllLogs(logSeq) == Len(logSeq)

TotalCompletions(logSeq) == Len(CompletedLogs(logSeq))

\* completionRate with the window filter left out
HabitCompletionRate_NoWindow(logSeq, clock) ==
  IF Len(logSeq) > 0
  THEN RoundDiv(Len(CompletedLogs(logSeq)) * 100, Len(logSeq))
  ELSE 0

\* completionRate over the last WindowDays days, whole percent
HabitCompletionRate(logSeq, clock) ==
  LET thirtyDaysAgo     == clock - WindowDays * TicksPerDay
      recentLogs        == SelectSeq(logSeq, LAMBDA l : l.date >= thirtyDaysAgo)
      recentCompletions == Len(CompletedLogs(recentLogs))
  IN  IF Len(recentLogs) > 0
      THEN RoundDiv(recentCompletions * 100, Len(recentLogs))
      ELSE 0

\* averageValue, in hundredths
AverageValue(targetType, logSeq) ==
  LET completedLogs == CompletedLogs(logSeq)
  IN  IF targetType # "boolean" /\ Len(completedLogs) > 0
      THEN RoundDiv(SumValues(completedLogs) * 100, Len(completedLogs))
      ELSE 0

\* updateStats storing the fresh longest streak without the Math.max
UpdateStats_NoWatermark(doc, logSeq, clock) ==
  LET s == HabitStreak(logSeq)
  IN  [doc EXCEPT
        !.stats  = [totalCompletions |-> TotalCompletions(logSeq),
                    completionRate   |-> HabitCompletionRate(logSeq, clock),
                    averageValue     |-> AverageValue(doc.targetType, logSeq),
                    bestStreak       |-> s.longestStreak],
        !.streak = [current           |-> s.currentStreak,
                    longest           |-> s.longestStreak,
                    lastCompletedDate |-> s.lastCompletedDate]]

\* updateStats adding the fresh longest streak onto the stored one
UpdateStats_Accumulate(doc, logSeq, clock) ==
  LET s == HabitStreak(logSeq)
  IN  [doc EXCEPT
        !.stats  = [totalCompletions |-> TotalCompletions(logSeq),
                    completionRate   |-> HabitCompletionRate(logSeq, clock),
                    averageValue     |-> AverageValue(doc.targetType, logSeq),
                    bestStreak       |-> doc.stats.bestStreak + s.longestStreak],
        !.streak = [current           |-> s.currentStreak,
                    longest           |-> doc.streak.longest + s.longestStreak,
                    lastCompletedDate |-> s.lastCompletedDate]]

\* habitSchema.methods.updateStats: the document it saves, logSeq being
\* the result of Log.find({ habit }).sort({ date: -1 })
UpdateStats(doc, logSeq, clock) ==
  LET s == HabitStreak(logSeq)
  IN  [doc EXCEPT
        !.stats  = [totalCompletions |-> TotalCompletions(logSeq),
                    completionRate   |-> HabitCompletionRate(logSeq, clock),
                    averageValue     |-> AverageValue(doc.targetType, logSeq),
                    bestStreak       |-> Max(doc.stats.bestStreak, s.longestStreak)],
        !.streak = [current           |-> s.currentStreak,
                    longest           |-> Max(doc.streak.longest, s.longestStreak),
                    lastCompletedDate |-> s.lastCompletedDate]]

-----------------------------------------------------------------------------
(* Log.getStreakInfo *)

RECURSIVE InfoStreakLoop(_, _, _)
InfoStreakLoop(ls, i, acc) ==
  IF i > Len(ls) THEN acc
  ELSE
    LET log == ls[i] IN
    IF log.completed THEN
      LET lcd  == IF acc.lastCompletedDate = NULL THEN log.date
                  ELSE acc.lastCompletedDate
          temp == acc.tempStreak + 1
      IN  IF i = 1 THEN
            InfoStreakLoop(ls, i + 1,
              [acc EXCEPT !.lastCompletedDate = lcd,
                          !.tempStreak = temp,
                          !.currentStreak = temp])
          ELSE IF Abs(ls[i - 1].date - log.date) = TicksPerDay THEN
            InfoStreakLoop(ls, i + 1,
              [acc EXCEPT !.lastCompletedDate = lcd,
                          !.tempStreak = temp,
                          !.currentStreak =
                             IF acc.currentStreak = 0 THEN temp
                             ELSE acc.currentStreak])
          ELSE
            InfoStreakLoop(ls, i + 1,
              [acc EXCEPT !.lastCompletedDate = lcd,
                          !.longestStreak = Max(acc.longestStreak, temp),
                          !.tempStreak = 1,
                          !.currentStreak = 0])
    ELSE
      InfoStreakLoop(ls, i + 1,
        [acc EXCEPT !.longestStreak = Max(acc.longestStreak, acc.tempStreak),
                    !.tempStreak = 0,
                    !.currentStreak = 0])

\* logSchema.statics.getStreakInfo
getStreakInfo(L, h) ==
  LET ls  == Limit(FindLogs(L, h), StreakLimit)
      acc == InfoStreakLoop(ls, 1, StreakAcc0)
  IN  [currentStreak     |-> acc.currentStreak,
       longestStreak     |-> Max(acc.longestStreak, acc.tempStreak),
       lastCompletedDate |-> acc.lastCompletedDate]

-----------------------------------------------------------------------------
(* Category.updateStats *)

\* Habit.find({ category: c })
HabitsIn(H, c) == {h \in DOMAIN H : H[h].category = c}

\* Habit.find({ category: c, isActive: true })
ActiveHabitsIn(H, c) == {h \in HabitsIn(H, c) : H[h].isActive}

\* the rollup taking every habit of the category for an active one
CategoryUpdateStats_AllHabits(doc, c, H, L, clock) ==
  LET totalHabits   == Cardinality(HabitsIn(H, c))
      activeHabits  == Cardinality(ActiveHabitsIn(H, c))
      thirtyDaysAgo == clock - WindowDays * TicksPerDay
      habitIds      == HabitsIn(H, c)
  IN  IF Cardinality(habitIds) > 0 THEN
        LET totalPossibleCompletions == Cardinality(habitIds) * WindowDays
            actualCompletions ==
              Cardinality({l \in L : /\ l.habit \in habitIds
                                     /\ l.completed
                                     /\ l.date >= thirtyDaysAgo})
        IN  [doc EXCEPT !.stats =
              [totalHabits    |-> totalHabits,
               activeHabits   |-> activeHabits,
               completionRate |-> RoundDiv(actualCompletions * 100,
                                           totalPossibleCompletions)]]
      ELSE
        [doc EXCEPT !.stats =
          [totalHabits |-> 0, activeHabits |-> 0, completionRate |-> 0]]

\* categorySchema.methods.updateStats: the document it saves
CategoryUpdateStats(doc, c, H, L, clock) ==
  LET totalHabits   == Cardinality(HabitsIn(H, c))
      activeHabits  == Cardinality(ActiveHabitsIn(H, c))
      thirtyDaysAgo == clock - WindowDays * TicksPerDay
      habitIds      == ActiveHabitsIn(H, c)
  IN  IF Cardinality(habitIds) > 0 THEN
        LET totalPossibleCompletions == Cardinality(habitIds) * WindowDays
            actualCompletions ==
              Cardinality({l \in L : /\ l.habit \in habitIds
                                     /\ l.completed
                                     /\ l.date >= thirtyDaysAgo})
        IN  [doc EXCEPT !.stats =
              [totalHabits    |-> totalHabits,
               activeHabits   |-> activeHabits,
               completionRate |->
                 IF totalPossibleCompletions > 0
                 THEN RoundDiv(actualCompletions * 100, totalPossibleCompletions)
                 ELSE 0]]
      ELSE
        [doc EXCEPT !.stats =
          [totalHabits |-> 0, activeHabits |-> 0, completionRate |-> 0]]

-----------------------------------------------------------------------------
(* User rollup *)

\* User.updateStats reads at most this many completed logs
UserRecentLimit == 30

\* Log.find({ user, completed: true }).sort({ date: -1 }).limit(30), every
\* document belonging to the one user
UserRecentLogs(L) ==
  Limit(SortByDateDesc({l \in L : l.completed}), UserRecentLimit)

\* the for loop of User.updateStats from index i on
RECURSIVE UserStreakLoop(_, _, _)
UserStreakLoop(recentLogs, i, acc) ==
  IF i > Len(recentLogs) THEN acc
  ELSE IF i = 1 \/ recentLogs[i-1].date - recentLogs[i].date = TicksPerDay
       THEN UserStreakLoop(recentLogs, i + 1,
              [acc EXCEPT !.tempStreak = @ + 1,
                          !.currentStreak = IF i = 1 THEN acc.tempStreak + 1 ELSE @])
       ELSE UserStreakLoop(recentLogs, i + 1,
              [acc EXCEPT !.longestStreak = Max(@, acc.tempStreak),
                          !.tempStreak = 1])

\* userSchema.methods.updateStats
UserUpdateStats(doc, H, L) ==
  LET acc == UserStreakLoop(UserRecentLogs(L), 1,
               [currentStreak |-> 0, longestStreak |-> 0, tempStreak |-> 0])
      longestStreak == Max(acc.longestStreak, acc.tempStreak)
  IN  [doc EXCEPT !.stats =
        [totalHabits      |-> Cardinality({h \in DOMAIN H : H[h].isActive}),
         totalCompletions |-> Cardinality({l \in L : l.completed}),
         currentStreak    |-> acc.currentStreak,
         longestStreak    |-> Max(doc.stats.longestStreak, longestStreak)]]

\* the loop over the active habits of GET /api/users/stats: the sum of the
\* current streaks and the maximum of the longest streaks that
\* Log.getStreakInfo reports
RECURSIVE HabitStreakTotals(_, _)
HabitStreakTotals(hs, L) ==
  IF hs = {} THEN [totalCurrentStreak |-> 0, longestStreak |-> 0]
  ELSE LET habit      == CHOOSE h \in hs : TRUE
           streakInfo == getStreakInfo(L, habit)
           rest       == HabitStreakTotals(hs \ {habit}, L)
       IN  [totalCurrentStreak |-> rest.totalCurrentStreak + streakInfo.currentStreak,
            longestStreak      |-> Max(rest.longestStreak, streakInfo.longestStreak)]

\* what GET /api/users/stats stores in the user document
UserStatsRollup(doc, H, L) ==
  LET totals == HabitStreakTotals({h \in DOMAIN H : H[h].isActive}, L)
  IN  [doc EXCEPT !.stats =
        [totalHabits      |-> Cardinality({h \in DOMAIN H : H[h].isActive}),
         totalCompletions |-> Cardinality({l \in L : l.completed}),
         currentStreak    |-> totals.totalCurrentStreak,
         longestStreak    |-> Max(doc.stats.longestStreak, totals.longestStreak)]]

-----------------------------------------------------------------------------
(* Stored documents *)

\* ids a request may name; only those in DOMAIN habits exist
HabitIds == {"h1", "h9"}

CategoryIds == {"c1", "c9"}

\* numeric values a request supplies for a log
Values == {2}

\* a habit as the schema defaults leave it
NewHabit(c, targetType) ==
  [category   |-> c,
   isActive   |-> TRUE,
   targetType |-> targetType,
   streak     |-> [current |-> 0, longest |-> 0, lastCompletedDate |-> NULL],
   stats      |-> [totalCompletions |-> 0, completionRate |-> 0,
                   averageValue |-> 0, bestStreak |-> 0]]

\* new Date() as stored in completedAt. The handlers modelled here test a
\* completedAt only for being null, so the stamp keeps the fact that it
\* is a date and drops the instant.
NewDate(clock) == clock - clock

\* the pre-save hook without the branch that clears completedAt
LogPreSave_KeepsStamp(doc, clock) ==
  [doc EXCEPT
     !.date = StartOfDay(doc.date),
     !.completedAt = IF doc.completed /\ doc.completedAt = NULL THEN NewDate(clock)
                     ELSE @]

\* logSchema.pre('save'): the date is stored as start of day in UTC, and
\* completedAt is stamped when the log is completed and has none, cleared
\* when the log is not completed
LogPreSave(doc, clock) ==
  [doc EXCEPT
     !.date = StartOfDay(doc.date),
     !.completedAt = IF doc.completed /\ doc.completedAt = NULL THEN NewDate(clock)
                     ELSE IF ~doc.completed THEN NULL
                     ELSE @]

\* the instants the clock is observed at: midday of the last log day, the
\* last instant at which day 1 is inside the window, the first at which
\* it is outside
Instants ==
  {DayTick(MaxLogDay) + 1,
   DayTick(WindowDays + 1),
   DayTick(WindowDays + 1) + 1}

\* instants a request may give as a log's date: each midnight, and one
\* instant that is not a midnight
LogInstants == {DayTick(d) : d \in 1..MaxLogDay} \cup {DayTick(MaxLogDay) + 1}

\* the response of the last request: the handler that answered ("rejected"
\* for an early 4xx return), the document it was about, the HTTP status and,
\* for the habit stats request, whether the request before it had already
\* recomputed the same habit
Response(op, target, status, again) ==
  [op |-> op, target |-> target, status |-> status, again |-> again]

\* an optional request field: <<>> when absent, <<v>> when given
Opt(S) == {<<>>} \cup {<<v>> : v \in S}

\* a user as the schema defaults leave it
NewUser ==
  [stats |-> [totalHabits |-> 0, totalCompletions |-> 0,
              currentStreak |-> 0, longestStreak |-> 0]]

\* no request is in flight
NoProcs == <<>>

\* what the last request did besides answering: whether a save of a cached
\* aggregate failed, whether the log collection was queried, the date
\* range the request named and the number of logs it answered with
NoNote == [saveFailed |-> FALSE, queried |-> FALSE, range |-> <<>>, count |-> 0]

\* a request parameter that does not parse as a date: new Date(s) is an
\* Invalid Date, whose getTime() is NaN
IsNaN(dateOpt) == dateOpt = <<>>

OutNone == [habit |-> NewHabit("c1", "boolean"), ranUpdateStats |-> FALSE,
            info |-> [currentStreak |-> 0, longestStreak |-> 0,
                      lastCompletedDate |-> NULL],
            ranGetStreakInfo |-> FALSE]

\* one category holding one numeric habit, created through POST /habits
\* (which ends with the category rollup)
Init ==
  /\ logs = {}
  /\ habits = [h \in {"h1"} |-> NewHabit("c1", "number")]
  /\ categories = [c \in {"c1"} |->
       [stats |-> [totalHabits |-> 1, activeHabits |-> 1, completionRate |-> 0]]]
  /\ now = DayTick(MaxLogDay) + 1
  /\ last = Response("none", "none", 0, FALSE)
  /\ hist = {}
  /\ out = OutNone
  /\ user = NewUser
  /\ procs = NoProcs
  /\ note = NoNote

-----------------------------------------------------------------------------
(* Hooks *)

\* logSchema.post('save') and post('findOneAndDelete'): the habits after
\* the hook ran for habit h over the log collection L
RecomputeHabit(H, L, h, clock) ==
  IF h \in DOMAIN H
  THEN [H EXCEPT ![h] = UpdateStats(H[h], FindLogs(L, h), clock)]
  ELSE H

\* habit h was recomputed by the request just answered
Recomputed(h) ==
  /\ last.target = h
  /\ last.status = 200
  /\ last.op \in {"logUpsert", "logUpdate", "logDelete", "habitStats", "habitUpdate"}

\* Log.findOne({ habit: h, date: d })
LogAt(L, h, d) == {l \in L : l.habit = h /\ l.date = d}

-----------------------------------------------------------------------------
(* Request handlers; each runs to completion, hooks included *)

\* POST /api/logs: create or update the log of (habit, date)
LogUpsert(h, t, completed, valueOpt) ==
  /\ UNCHANGED <<categories, now, hist, out, user, procs>>
  /\ note' = NoNote
  /\ IF h \notin DOMAIN habits THEN
       /\ last' = Response("rejected", h, 400, FALSE)
       /\ UNCHANGED <<logs, habits>>
     ELSE
       LET logDate  == StartOfDay(t)
           existing == LogAt(logs, h, logDate)
           saved    ==
             IF existing # {} THEN
               LET log == CHOOSE l \in existing : TRUE
               IN  LogPreSave([log EXCEPT
                     !.completed = completed,
                     !.value = IF valueOpt # <<>> THEN valueOpt[1] ELSE @], now)
             ELSE
               LogPreSave([habit |-> h, date |-> logDate, completed |-> completed,
                           value |-> IF valueOpt # <<>> THEN valueOpt[1] ELSE NULL,
                           completedAt |-> NULL], now)
           logs2    == (logs \ existing) \cup {saved}
       IN  /\ logs' = logs2
           /\ habits' = RecomputeHabit(habits, logs2, h, now)
           /\ last' = Response("logUpsert", h, 200, FALSE)

\* PUT /api/logs/:id, the log being the one of (h, d)
LogUpdate(h, d, completedOpt, valueOpt) ==
  /\ UNCHANGED <<categories, now, hist, out, user, procs>>
  /\ note' = NoNote
  /\ IF LogAt(logs, h, d) = {} THEN
       /\ last' = Response("rejected", h, 404, FALSE)
       /\ UNCHANGED <<logs, habits>>
     ELSE
       LET log   == CHOOSE l \in LogAt(logs, h, d) : TRUE
           saved == LogPreSave([log EXCEPT
                      !.completed = IF completedOpt # <<>> THEN completedOpt[1] ELSE @,
                      !.value = IF valueOpt # <<>> THEN valueOpt[1] ELSE @], now)
           logs2 == (logs \ {log}) \cup {saved}
       IN  /\ logs' = logs2
           /\ habits' = RecomputeHabit(habits, logs2, h, now)
           /\ last' = Response("logUpdate", h, 200, FALSE)

\* the log delete chained into the rollup of the habit's category
LogDelete_RollsUpCategory(h, d) ==
  /\ UNCHANGED <<now, hist, out, user, procs>>
  /\ note' = NoNote
  /\ IF LogAt(logs, h, d) = {} THEN
       /\ last' = Response("rejected", h, 404, FALSE)
       /\ UNCHANGED <<logs, habits, categories>>
     ELSE
       LET logs2   == logs \ LogAt(logs, h, d)
           habits2 == RecomputeHabit(habits, logs2, h, now)
           c       == habits[h].category
       IN  /\ logs' = logs2
           /\ habits' = habits2
           /\ categories' = [categories EXCEPT
                               ![c] = CategoryUpdateStats(@, c, habits2, logs2, now)]
           /\ last' = Response("logDelete", h, 200, FALSE)

\* DELETE /api/logs/:id, the log being the one of (h, d)
LogDelete(h, d) ==
  /\ UNCHANGED <<categories, now, hist, out, user, procs>>
  /\ note' = NoNote
  /\ IF LogAt(logs, h, d) = {} THEN
       /\ last' = Response("rejected", h, 404, FALSE)
       /\ UNCHANGED <<logs, habits>>
     ELSE
       LET logs2 == logs \ LogAt(logs, h, d)
       IN  /\ logs' = logs2
           /\ habits' = RecomputeHabit(habits, logs2, h, now)
           /\ last' = Response("logDelete", h, 200, FALSE)

\* GET /api/habits/:id/stats: recompute, then read the streak info
HabitStats(h) ==
  /\ UNCHANGED <<logs, categories, now, hist, out, user, procs>>
  /\ note' = NoNote
  /\ IF h \notin DOMAIN habits THEN
       /\ last' = Response("rejected", h, 404, FALSE)
       /\ UNCHANGED habits
     ELSE
       /\ habits' = [habits EXCEPT ![h] = UpdateStats(@, FindLogs(logs, h), now)]
       /\ last' = Response("habitStats", h, 200, Recomputed(h))

\* PUT /api/habits/:id with an optional isActive
HabitUpdate(h, isActiveOpt) ==
  /\ UNCHANGED <<logs, categories, now, hist, out, user, procs>>
  /\ note' = NoNote
  /\ IF h \notin DOMAIN habits THEN
       /\ last' = Response("rejected", h, 404, FALSE)
       /\ UNCHANGED habits
     ELSE
       LET edited == [habits[h] EXCEPT
                       !.isActive = IF isActiveOpt # <<>> THEN isActiveOpt[1] ELSE @]
       IN  /\ habits' = [habits EXCEPT ![h] = UpdateStats(edited, FindLogs(logs, h), now)]
           /\ last' = Response("habitUpdate", h, 200, FALSE)

\* GET /api/categories/:id/stats
CategoryStats(c) ==
  /\ UNCHANGED <<logs, habits, now, hist, out, user, procs>>
  /\ note' = NoNote
  /\ IF c \notin DOMAIN categories THEN
       last' = Response("rejected", c, 404, FALSE) /\ UNCHANGED categories
     ELSE
       /\ categories' = [categories EXCEPT
                           ![c] = CategoryUpdateStats(@, c, habits, logs, now)]
       /\ last' = Response("categoryStats", c, 200, FALSE)

\* time passes
Tick ==
  /\ \E t \in Instants : t > now /\ now' = t
  /\ last' = Response("tick", "none", 0, FALSE)
  /\ UNCHANGED <<logs, habits, categories, hist, out, user, procs>>
  /\ note' = NoNote

LogDays == {DayTick(d) : d \in 1..MaxLogDay}

\* requests naming a habit, log or category that does not exist
NotFoundRequest ==
  \/ \E h \in HabitIds \ DOMAIN habits :
        \/ LogUpsert(h, DayTick(1), TRUE, <<>>)
        \/ HabitStats(h)
        \/ HabitUpdate(h, <<>>)
  \/ \E h \in DOMAIN habits, d \in LogDays :
        /\ LogAt(logs, h, d) = {}
        /\ (LogUpdate(h, d, <<>>, <<>>) \/ LogDelete(h, d))
  \/ \E c \in CategoryIds \ DOMAIN categories : CategoryStats(c)

Next ==
  \/ \E h \in DOMAIN habits, t \in LogInstants, completed \in BOOLEAN,
        valueOpt \in Opt(Values) : LogUpsert(h, t, completed, valueOpt)
  \/ \E l \in logs, completedOpt \in Opt(BOOLEAN), valueOpt \in Opt(Values) :
        LogUpdate(l.habit, l.date, completedOpt, valueOpt)
  \/ \E l \in logs : LogDelete(l.habit, l.date)
  \/ \E h \in DOMAIN habits : HabitStats(h)
  \/ \E h \in DOMAIN habits, isActiveOpt \in Opt(BOOLEAN) : HabitUpdate(h, isActiveOpt)
  \/ \E c \in DOMAIN categories : CategoryStats(c)
  \/ NotFoundRequest
  \/ Tick

Spec == Init /\ [][Next]_vars

-----------------------------------------------------------------------------
(* The streak functions on drawn log histories *)

\* the log set in which day d has no log, a completed log or an
\* incomplete one, as f[d] says
HistoryOf(f) ==
  {[habit |-> "h1", date |-> DayTick(d), completed |-> (f[d] = "done"),
    value |-> NULL,
    completedAt |-> IF f[d] = "done" THEN NewDate(DayTick(d)) ELSE NULL] :
     d \in {x \in DOMAIN f : f[x] # "none"}}

Histories == {HistoryOf(f) : f \in [1..MaxDay -> {"none", "done", "missed"}]}

InitStreak ==
  /\ logs = {}
  /\ habits = [h \in {"h1"} |-> NewHabit("c1", "number")]
  /\ categories = [c \in {"c1"} |->
       [stats |-> [totalHabits |-> 1, activeHabits |-> 1, completionRate |-> 0]]]
  /\ now = DayTick(MaxDay) + 1
  /\ last = Response("none", "none", 0, FALSE)
  /\ hist \in Histories
  /\ out = OutNone
  /\ user = NewUser
  /\ procs = NoProcs
  /\ note = NoNote

\* Habit.updateStats on a habit whose stored streak and stats are the defaults
ApplyUpdateStats ==
  /\ ~out.ranUpdateStats
  /\ out' = [out EXCEPT
       !.habit = UpdateStats(NewHabit("c1", "boolean"), FindLogs(hist, "h1"), now),
       !.ranUpdateStats = TRUE]
  /\ UNCHANGED <<logs, habits, categories, now, last, hist, user, procs, note>>

\* Log.getStreakInfo
ApplyGetStreakInfo ==
  /\ ~out.ranGetStreakInfo
  /\ out' = [out EXCEPT !.info = getStreakInfo(hist, "h1"),
                        !.ranGetStreakInfo = TRUE]
  /\ UNCHANGED <<logs, habits, categories, now, last, hist, user, procs, note>>

NextStreak == ApplyUpdateStats \/ ApplyGetStreakInfo

SpecStreak == InitStreak /\ [][NextStreak]_vars

-----------------------------------------------------------------------------
(* The user rollup over drawn log histories of two habits *)

\* days a drawn two-habit history may span
MaxUserDay == 3

\* GET /api/users/profile: recompute the user's stats, then answer
UserProfile ==
  /\ user' = UserUpdateStats(user, habits, logs)
  /\ last' = Response("userProfile", "user", 200, FALSE)
  /\ UNCHANGED <<logs, habits, categories, now, hist, out, procs>>
  /\ note' = NoNote

\* GET /api/users/stats
UserStats ==
  /\ user' = UserStatsRollup(user, habits, logs)
  /\ last' = Response("userStats", "user", 200, FALSE)
  /\ UNCHANGED <<logs, habits, categories, now, hist, out, procs>>
  /\ note' = NoNote

\* the logs of habit h in which day d has no log, a completed log or an
\* incomplete one, as f[d] says
HabitHistory(h, f) ==
  {[habit |-> h, date |-> DayTick(d), completed |-> (f[d] = "done"),
    value |-> NULL,
    completedAt |-> IF f[d] = "done" THEN NewDate(DayTick(d)) ELSE NULL] :
     d \in {x \in DOMAIN f : f[x] # "none"}}

UserHistories ==
  {HabitHistory("h1", f) \cup HabitHistory("h2", g) :
     f \in [1..MaxUserDay -> {"none", "done", "missed"}],
     g \in [1..MaxUserDay -> {"none", "done", "missed"}]}

\* two habits of one category, each active or not, their caches computed
\* from their logs; the category as POST /habits left it; a new user
InitUser ==
  /\ logs \in UserHistories
  /\ now = DayTick(MaxUserDay) + 1
  /\ \E active \in [{"h1", "h2"} -> BOOLEAN] :
       habits = [h \in {"h1", "h2"} |->
                   UpdateStats([NewHabit("c1", "boolean") EXCEPT !.isActive = active[h]],
                               FindLogs(logs, h), now)]
  /\ categories = [c \in {"c1"} |->
       [stats |-> [totalHabits |-> 2, activeHabits |-> 2, completionRate |-> 0]]]
  /\ last = Response("none", "none", 0, FALSE)
  /\ hist = {}
  /\ out = OutNone
  /\ user = NewUser
  /\ procs = NoProcs
  /\ note = NoNote

NextUser == UserProfile \/ UserStats

SpecUser == InitUser /\ [][NextUser]_vars

-----------------------------------------------------------------------------
(* Two categories with one habit each: log requests, the category rollup,  *)
(* the category delete and the log range query                             *)

\* days on which the requests of this part may place a log
MaxAppDay == 1

\* the category delete without Log.deleteMany
CategoryDelete_KeepsLogs(c) ==
  /\ UNCHANGED <<now, hist, out, user, procs>>
  /\ note' = NoNote
  /\ IF c \notin DOMAIN categories THEN
       /\ last' = Response("rejected", c, 404, FALSE)
       /\ UNCHANGED <<logs, habits, categories>>
     ELSE
       LET habitIds == HabitsIn(habits, c)
       IN  /\ logs' = logs
           /\ habits' = [h \in DOMAIN habits \ habitIds |-> habits[h]]
           /\ categories' = [d \in DOMAIN categories \ {c} |-> categories[d]]
           /\ last' = Response("categoryDelete", c, 200, FALSE)

\* DELETE /api/categories/:id: the logs of the category's habits, the
\* habits, then the category
CategoryDelete(c) ==
  /\ UNCHANGED <<now, hist, out, user, procs>>
  /\ note' = NoNote
  /\ IF c \notin DOMAIN categories THEN
       /\ last' = Response("rejected", c, 404, FALSE)
       /\ UNCHANGED <<logs, habits, categories>>
     ELSE
       LET habitIds == HabitsIn(habits, c)
       IN  /\ logs' = {l \in logs : l.habit \notin habitIds}
           /\ habits' = [h \in DOMAIN habits \ habitIds |-> habits[h]]
           /\ categories' = [d \in DOMAIN categories \ {c} |-> categories[d]]
           /\ last' = Response("categoryDelete", c, 200, FALSE)

\* Log.getLogsForDateRange: { date: { $gte: startDate, $lte: endDate } },
\* of one habit when habitOpt names one
getLogsForDateRange(L, startDate, endDate, habitOpt) ==
  SortByDateDesc({l \in L : /\ l.date >= startDate
                            /\ l.date <= endDate
                            /\ habitOpt # <<>> => l.habit = habitOpt[1]})

\* GET /api/logs/range/:startDate/:endDate
LogRange(startOpt, endOpt, habitOpt) ==
  /\ UNCHANGED <<logs, habits, categories, now, hist, out, user, procs>>
  /\ IF IsNaN(startOpt) \/ IsNaN(endOpt) THEN
       /\ last' = Response("rejected", "logs", 400, FALSE)
       /\ note' = NoNote
     ELSE
       LET found == getLogsForDateRange(logs, startOpt[1], endOpt[1], habitOpt)
       IN  /\ last' = Response("logRange", "logs", 200, FALSE)
           /\ note' = [NoNote EXCEPT !.queried = TRUE,
                                     !.range = <<startOpt[1], endOpt[1]>>,
                                     !.count = Len(found)]

AppHabitIds == {"h1", "h2"}

AppCategoryIds == {"c1", "c2"}

\* instants a request may give as a log's date: each midnight, and one
\* instant that is not a midnight
AppInstants == {DayTick(d) : d \in 1..MaxAppDay} \cup {DayTick(MaxAppDay) + 1}

\* dates a range request may name
RangeDates == {DayTick(d) : d \in 1..(MaxAppDay + 1)}

\* two categories, each with one boolean habit, created through
\* POST /categories and POST /habits
InitApp ==
  /\ logs = {}
  /\ habits = [h \in AppHabitIds |->
                 NewHabit(IF h = "h1" THEN "c1" ELSE "c2", "boolean")]
  /\ categories = [c \in AppCategoryIds |->
       [stats |-> [totalHabits |-> 1, activeHabits |-> 1, completionRate |-> 0]]]
  /\ now = DayTick(MaxAppDay) + 1
  /\ last = Response("none", "none", 0, FALSE)
  /\ hist = {}
  /\ out = OutNone
  /\ user = NewUser
  /\ procs = NoProcs
  /\ note = NoNote

NextApp ==
  \/ \E h \in AppHabitIds, t \in AppInstants, completed \in BOOLEAN :
        LogUpsert(h, t, completed, <<>>)
  \/ \E l \in logs, completedOpt \in Opt(BOOLEAN) :
        LogUpdate(l.habit, l.date, completedOpt, <<>>)
  \/ \E l \in logs : LogDelete(l.habit, l.date)
  \/ \E c \in DOMAIN categories : CategoryStats(c)
  \/ \E c \in AppCategoryIds : CategoryDelete(c)
  \/ \E startOpt \in Opt(RangeDates), endOpt \in Opt(RangeDates),
        habitOpt \in Opt(DOMAIN habits) : LogRange(startOpt, endOpt, habitOpt)

SpecApp == InitApp /\ [][NextApp]_vars

-----------------------------------------------------------------------------
(* Two requests in flight: the log routes and the hooks they trigger, one  *)
(* database operation at a time                                            *)

\* days on which the requests in flight may place a log
MaxConcDay == 1

Procs == {"p1", "p2"}

ConcDays == {DayTick(d) : d \in 1..MaxConcDay}

\* instants a request may give as a log's date: each midnight, and one
\* instant that is not a midnight
ConcInstants == ConcDays \cup {DayTick(MaxConcDay) + 1}

\* one element of req.body.logs, or the body of a single-log request
Entry(h, t, completed) == [habit |-> h, date |-> t, completed |-> completed]

Request(kind, entries) == [kind |-> kind, entries |-> entries]

\* the requests on the logs of habit h: POST /logs, PUT /logs/:id,
\* DELETE /logs/:id and POST /logs/bulk with two entries, one completed
\* and one not
Requests(h) ==
  {Request("upsert", <<Entry(h, t, c)>>) : t \in ConcInstants, c \in BOOLEAN}
  \cup {Request("update", <<Entry(h, d, c)>>) : d \in ConcDays, c \in BOOLEAN}
  \cup {Request("delete", <<Entry(h, d, FALSE)>>) : d \in ConcDays}
  \cup {Request("bulk", <<Entry(h, d1, c), Entry(h, d2, ~c)>>) :
          d1 \in ConcDays, d2 \in ConcDays, c \in BOOLEAN}

\* a request handler between two database operations: where it is, the
\* entry it is at, the log document it found, the habit document and the
\* logs its hook has read, and the status it answered with
IdleProc ==
  [pc |-> "idle", req |-> Request("none", <<>>), i |-> 0, log |-> <<>>,
   habit |-> <<>>, logSeq |-> <<>>, status |-> 0]

Answered(ps, status) ==
  [ps EXCEPT !.pc = "done", !.status = status, !.i = 0, !.log = <<>>,
             !.habit = <<>>, !.logSeq = <<>>]

\* the entry is done: the next one of a bulk request, or the answer
FinishEntry(ps) ==
  IF ps.i < Len(ps.req.entries)
  THEN [ps EXCEPT !.pc = "find", !.i = @ + 1, !.log = <<>>, !.habit = <<>>,
                  !.logSeq = <<>>]
  ELSE Answered(ps, 200)

\* the handler starts: POST /logs and POST /logs/bulk verify the habits
Accept(req, H) ==
  IF /\ req.kind \in {"upsert", "bulk"}
     /\ \E i \in DOMAIN req.entries : req.entries[i].habit \notin DOMAIN H
  THEN Answered([IdleProc EXCEPT !.req = req], 400)
  ELSE [IdleProc EXCEPT !.req = req, !.pc = "find", !.i = 1]

\* Log.findOne for the entry at hand
StepFind(db, ps) ==
  LET e     == ps.req.entries[ps.i]
      found == LogAt(db.logs, e.habit, StartOfDay(e.date))
  IN  [db   |-> db,
       proc |-> IF found = {} /\ ps.req.kind \in {"update", "delete"}
                THEN Answered(ps, 404)
                ELSE [ps EXCEPT !.pc = "save",
                                !.log = IF found = {} THEN <<>>
                                        ELSE <<CHOOSE l \in found : TRUE>>]]

\* without the unique index no insert is rejected
UniqueIndexRejects_NoIndex(L, doc) == FALSE

\* logSchema.index({ habit: 1, date: 1 }, { unique: true }): the insert of
\* doc into L fails with a duplicate key error
UniqueIndexRejects(L, doc) == LogAt(L, doc.habit, doc.date) # {}

\* log.save(), Log.create() or Log.findByIdAndDelete() for the entry at
\* hand. A save of a found document sets the modified paths of the stored
\* document; when that document is gone the save either throws
\* (strict) or passes without writing.
StepSave(db, ps, clock, strict) ==
  LET e == ps.req.entries[ps.i]
  IN  IF ps.req.kind = "delete" THEN
        LET cur == LogAt(db.logs, e.habit, StartOfDay(e.date))
        IN  [db   |-> [db EXCEPT !.logs = @ \ cur],
             proc |-> IF cur # {} THEN [ps EXCEPT !.pc = "hookHabit"]
                      ELSE FinishEntry(ps)]
      ELSE IF ps.log # <<>> THEN
        LET doc   == ps.log[1]
            saved == LogPreSave([doc EXCEPT !.completed = e.completed], clock)
            cur   == LogAt(db.logs, doc.habit, doc.date)
        IN  IF saved = doc THEN
              [db |-> db, proc |-> [ps EXCEPT !.pc = "hookHabit"]]
            ELSE IF cur = {} THEN
              [db   |-> db,
               proc |-> IF strict THEN Answered(ps, 500)
                        ELSE [ps EXCEPT !.pc = "hookHabit"]]
            ELSE
              [db   |-> [db EXCEPT !.logs =
                          {IF l \in cur
                           THEN [l EXCEPT
                                  !.completed =
                                     IF saved.completed # doc.completed
                                     THEN saved.completed ELSE @,
                                  !.completedAt =
                                     IF saved.completedAt # doc.completedAt
                                     THEN saved.completedAt ELSE @]
                           ELSE l : l \in db.logs}],
               proc |-> [ps EXCEPT !.pc = "hookHabit"]]
      ELSE
        LET doc == LogPreSave([habit |-> e.habit, date |-> StartOfDay(e.date),
                               completed |-> e.completed, value |-> NULL,
                               completedAt |-> NULL], clock)
        IN  IF UniqueIndexRejects(db.logs, doc)
            THEN [db |-> db, proc |-> Answered(ps, 500)]
            ELSE [db   |-> [db EXCEPT !.logs = @ \cup {doc}],
                  proc |-> [ps EXCEPT !.pc = "hookHabit"]]

\* the post hook: Habit.findById
StepHookHabit(db, ps) ==
  LET h == ps.req.entries[ps.i].habit
  IN  [db   |-> db,
       proc |-> IF h \in DOMAIN db.habits
                THEN [ps EXCEPT !.pc = "hookLogs", !.habit = <<db.habits[h]>>]
                ELSE FinishEntry(ps)]

\* habit.updateStats: Log.find({ habit }).sort({ date: -1 })
StepHookLogs(db, ps) ==
  LET h == ps.req.entries[ps.i].habit
  IN  [db   |-> db,
       proc |-> [ps EXCEPT !.pc = "hookSave", !.logSeq = FindLogs(db.logs, h)]]

\* habit.updateStats: the stats and streak computed from what was read,
\* then this.save(), which sets the two assigned paths
StepHookSave(db, ps, clock) ==
  LET h        == ps.req.entries[ps.i].habit
      computed == UpdateStats(ps.habit[1], ps.logSeq, clock)
  IN  [db   |-> IF h \in DOMAIN db.habits
                THEN [db EXCEPT !.habits[h].stats = computed.stats,
                                !.habits[h].streak = computed.streak]
                ELSE db,
       proc |-> FinishEntry(ps)]

\* the next database operation of a handler
StepOf(db, ps, clock, strict) ==
  CASE ps.pc = "find"      -> StepFind(db, ps)
    [] ps.pc = "save"      -> StepSave(db, ps, clock, strict)
    [] ps.pc = "hookHabit" -> StepHookHabit(db, ps)
    [] ps.pc = "hookLogs"  -> StepHookLogs(db, ps)
    [] ps.pc = "hookSave"  -> StepHookSave(db, ps, clock)

\* the database after a handler ran alone from ps to its answer
RECURSIVE RunToCompletion(_, _, _)
RunToCompletion(db, ps, clock) ==
  IF ps.pc = "done" THEN db
  ELSE LET r == StepOf(db, ps, clock, TRUE)
       IN  RunToCompletion(r.db, r.proc, clock)

\* the database after the requests reqs ran one after the other
RECURSIVE SeqRun(_, _, _)
SeqRun(db, reqs, clock) ==
  IF reqs = <<>> THEN db
  ELSE SeqRun(RunToCompletion(db, Accept(Head(reqs), db.habits), clock),
              Tail(reqs), clock)

Db == [logs |-> logs, habits |-> habits]

\* the habits a process sends its request about
ProcHabits(p) == IF p = "p1" THEN {"h1"} ELSE {"h1", "h2"}

\* a request arrives
Start(p, req) ==
  /\ procs[p].pc = "idle"
  /\ procs' = [procs EXCEPT ![p] = Accept(req, habits)]
  /\ UNCHANGED <<logs, habits, categories, now, last, hist, out, user, note>>

\* a handler in flight performs its next database operation
Apply(p, r) ==
  /\ logs' = r.db.logs
  /\ habits' = r.db.habits
  /\ procs' = [procs EXCEPT ![p] = r.proc]
  /\ UNCHANGED <<categories, now, last, hist, out, user, note>>

Find(p) == procs[p].pc = "find" /\ Apply(p, StepFind(Db, procs[p]))

Save(p) ==
  /\ procs[p].pc = "save"
  /\ \E strict \in BOOLEAN : Apply(p, StepSave(Db, procs[p], now, strict))

HookHabit(p) == procs[p].pc = "hookHabit" /\ Apply(p, StepHookHabit(Db, procs[p]))

HookLogs(p) == procs[p].pc = "hookLogs" /\ Apply(p, StepHookLogs(Db, procs[p]))

HookSave(p) == procs[p].pc = "hookSave" /\ Apply(p, StepHookSave(Db, procs[p], now))

\* the logs of h1 a run starts from
ConcHistories ==
  {HabitHistory("h1", f) : f \in [1..MaxConcDay -> {"none", "done", "missed"}]}

\* the habits as created in one category, their caches computed from the
\* logs L
HabitsOver(L, clock) ==
  [h \in {"h1", "h2"} |->
     UpdateStats(NewHabit("c1", "boolean"), FindLogs(L, h), clock)]

\* two habits of one category, h1 with a drawn log history, and no request
\* in flight; hist keeps the logs the run started from
InitConc ==
  /\ hist \in ConcHistories
  /\ logs = hist
  /\ now = DayTick(MaxConcDay) + 1
  /\ habits = HabitsOver(hist, now)
  /\ categories = [c \in {"c1"} |->
       [stats |-> [totalHabits |-> 2, activeHabits |-> 2, completionRate |-> 0]]]
  /\ last = Response("none", "none", 0, FALSE)
  /\ out = OutNone
  /\ user = NewUser
  /\ procs = [p \in Procs |-> IdleProc]
  /\ note = NoNote

NextConc ==
  \/ \E p \in Procs, h \in {"h1", "h2"} :
        h \in ProcHabits(p) /\ \E req \in Requests(h) : Start(p, req)
  \/ \E p \in Procs : Find(p)
  \/ \E p \in Procs : Save(p)
  \/ \E p \in Procs : HookHabit(p)
  \/ \E p \in Procs : HookLogs(p)
  \/ \E p \in Procs : HookSave(p)

SpecConc == InitConc /\ [][NextConc]_vars

-----------------------------------------------------------------------------
(* The same requests when the save of the recomputed aggregate fails       *)

\* the request just answered ran a recompute whose save threw
SaveFailed == [NoNote EXCEPT !.saveFailed = TRUE]

\* DELETE /api/logs/:id when habit.save() throws inside updateStats: the
\* catch of updateStats logs the error, the hook and the route go on
LogDeleteSaveFails(h, d) ==
  /\ LogAt(logs, h, d) # {} /\ h \in DOMAIN habits
  /\ logs' = logs \ LogAt(logs, h, d)
  /\ last' = Response("logDelete", h, 200, FALSE)
  /\ note' = SaveFailed
  /\ UNCHANGED <<habits, categories, now, hist, out, user, procs>>

\* GET /api/habits/:id/stats when habit.save() throws inside updateStats
HabitStatsSaveFails(h) ==
  /\ h \in DOMAIN habits
  /\ last' = Response("habitStats", h, 200, FALSE)
  /\ note' = SaveFailed
  /\ UNCHANGED <<logs, habits, categories, now, hist, out, user, procs>>

\* GET /api/categories/:id/stats when category.save() throws inside
\* updateStats
CategoryStatsSaveFails(c) ==
  /\ c \in DOMAIN categories
  /\ last' = Response("categoryStats", c, 200, FALSE)
  /\ note' = SaveFailed
  /\ UNCHANGED <<logs, habits, categories, now, hist, out, user, procs>>

\* GET /api/users/profile when user.save() throws inside updateStats
UserProfileSaveFails ==
  /\ last' = Response("userProfile", "user", 200, FALSE)
  /\ note' = SaveFailed
  /\ UNCHANGED <<logs, habits, categories, now, hist, out, user, procs>>

\* GET /api/users/stats when user.save() throws: the catch of the route
\* answers 500
UserStatsSaveFails ==
  /\ last' = Response("userStats", "user", 500, FALSE)
  /\ note' = SaveFailed
  /\ UNCHANGED <<logs, habits, categories, now, hist, out, user, procs>>

NextFault ==
  \/ NextApp
  \/ \E l \in logs : LogDeleteSaveFails(l.habit, l.date)
  \/ \E h \in DOMAIN habits : HabitStatsSaveFails(h)
  \/ \E c \in DOMAIN categories : CategoryStatsSaveFails(c)
  \/ UserProfileSaveFails
  \/ UserStatsSaveFails

SpecFault == InitApp /\ [][NextFault]_vars

-----------------------------------------------------------------------------
(* Requests in flight while a habit is deleted                             *)

\* DELETE /api/habits/:id: the logs of the habit, the habit, then the
\* rollup of its category when the category is found
HabitDelete(h) ==
  /\ UNCHANGED <<now, hist, out, user, procs>>
  /\ note' = NoNote
  /\ IF h \notin DOMAIN habits THEN
       /\ last' = Response("rejected", h, 404, FALSE)
       /\ UNCHANGED <<logs, habits, categories>>
     ELSE
       LET c       == habits[h].category
           logs2   == {l \in logs : l.habit # h}
           habits2 == [g \in DOMAIN habits \ {h} |-> habits[g]]
       IN  /\ logs' = logs2
           /\ habits' = habits2
           /\ categories' =
                IF c \in DOMAIN categories
                THEN [categories EXCEPT
                        ![c] = CategoryUpdateStats(@, c, habits2, logs2, now)]
                ELSE categories
           /\ last' = Response("habitDelete", h, 200, FALSE)

NextOrphan ==
  \/ NextConc
  \/ \E h \in DOMAIN habits : HabitDelete(h)

SpecOrphan == InitConc /\ [][NextOrphan]_vars

-----------------------------------------------------------------------------
(* GET /api/analytics/dashboard                                            *)

\* the default page size of the top-habits list ($limit)
TopLimit == 5

\* the windows a caller asks for (?days=)
MaxDashDays == 3

\* a stored reference: Log.user is declared Schema.Types.ObjectId
ObjectId(hex) == [bson |-> "objectId", hex |-> hex]

\* document.id: the hexadecimal string of the document's _id
IdString(oid) == [bson |-> "string", hex |-> oid.hex]

\* the user every stored log belongs to: the log routes write
\* user: req.user.id, which the schema casts to an ObjectId on save
LogUser(l) == ObjectId("u1")

\* req.user as the protect middleware sets it: the user document
ReqUser == [_id |-> ObjectId("u1"), id |-> IdString(ObjectId("u1"))]

\* { $match: { user: userId, completed: true,
\*             date: { $gte: startDate, $lte: endDate } } }
\* the stage is sent as written: a pipeline is not cast to the schema, and
\* the query language compares values of different types as unequal
DashboardMatch(L, userId, startDate, endDate) ==
  {l \in L : /\ LogUser(l) = userId
             /\ l.completed
             /\ l.date >= startDate
             /\ l.date <= endDate}

\* $group by $dateToString "%Y-%m-%d", then $count; [0]?.activeDays || 0
ActiveDays(M) == Cardinality({StartOfDay(l.date) : l \in M})

\* Math.round((activeDays / parseInt(days)) * 100)
ConsistencyScore(M, days) == RoundDiv(ActiveDays(M) * 100, days)

\* $group by $habit with completions: { $sum: 1 }
Completions(M, h) == Cardinality({l \in M : l.habit = h})

\* { $sort: { completions: -1 } }: every order of the groups with
\* non-increasing completions; groups with equal completions come in an
\* order the stage does not fix
TopOrders(M) ==
  LET G == {l.habit : l \in M}
      n == Cardinality(G)
  IN  {s \in [1..n -> G] :
         /\ \A i, j \in 1..n : i # j => s[i] # s[j]
         /\ \A i, j \in 1..n : i < j => Completions(M, s[i]) >= Completions(M, s[j])}

\* $lookup from habits and $unwind: a group whose habit is gone is dropped
RECURSIVE Unwind(_, _)
Unwind(s, H) ==
  IF s = <<>> THEN <<>>
  ELSE IF Head(s) \in DOMAIN H THEN <<Head(s)>> \o Unwind(Tail(s), H)
       ELSE Unwind(Tail(s), H)

\* $project: the habit and its completions
RECURSIVE Project(_, _)
Project(s, M) ==
  IF s = <<>> THEN <<>>
  ELSE <<[habit |-> Head(s), completions |-> Completions(M, Head(s))]>>
       \o Project(Tail(s), M)

DashNone == [ranDashboard |-> FALSE, days |-> 0, startDate |-> 0, endDate |-> 0,
             consistencyScore |-> 0, topHabits |-> <<>>]

\* the handler: userId = req.user.id, endDate = new Date(),
\* startDate = endDate - days
Dashboard(days) ==
  LET userId    == ReqUser.id
      endDate   == now
      startDate == now - days * TicksPerDay
      M         == DashboardMatch(logs, userId, startDate, endDate)
  IN  /\ ~out.ranDashboard
      /\ \E order \in TopOrders(M) :
           out' = [ranDashboard |-> TRUE, days |-> days,
                   startDate |-> startDate, endDate |-> endDate,
                   consistencyScore |-> ConsistencyScore(M, days),
                   topHabits |-> Project(Unwind(Limit(order, TopLimit), habits), M)]
      /\ last' = Response("dashboard", "none", 200, FALSE)
      /\ note' = NoNote
      /\ UNCHANGED <<logs, habits, categories, now, hist, user, procs>>

\* two habits of the user with their logs; the request comes at midnight
\* or during the day
InitDash ==
  /\ logs \in UserHistories
  /\ now \in {DayTick(MaxUserDay), DayTick(MaxUserDay) + 1}
  /\ habits = [h \in {"h1", "h2"} |->
                 UpdateStats(NewHabit("c1", "boolean"), FindLogs(logs, h), now)]
  /\ categories = [c \in {"c1"} |->
       [stats |-> [totalHabits |-> 2, activeHabits |-> 2, completionRate |-> 0]]]
  /\ last = Response("none", "none", 0, FALSE)
  /\ hist = {}
  /\ out = DashNone
  /\ user = NewUser
  /\ procs = NoProcs
  /\ note = NoNote

NextDash == \E days \in 1..MaxDashDays : Dashboard(days)

SpecDash == InitDash /\ [][NextDash]_vars

-----------------------------------------------------------------------------
(* The habit routes and the category rollup                                *)

\* the habits one template creates
TemplateSize == 2

\* identifiers a created habit can get
HabitPool == {"h1", "h2", "h3"}

\* POST /api/habits: the category must exist; the habit is created with the
\* schema defaults and the category is rolled up
HabitCreate(h, c) ==
  /\ h \notin DOMAIN habits
  /\ UNCHANGED <<logs, now, hist, out, user, procs>>
  /\ note' = NoNote
  /\ IF c \notin DOMAIN categories THEN
       /\ last' = Response("rejected", c, 400, FALSE)
       /\ UNCHANGED <<habits, categories>>
     ELSE
       LET habits2 == [g \in DOMAIN habits \cup {h} |->
                         IF g = h THEN NewHabit(c, "boolean") ELSE habits[g]]
       IN  /\ habits' = habits2
           /\ categories' = [categories EXCEPT
                               ![c] = CategoryUpdateStats(@, c, habits2, logs, now)]
           /\ last' = Response("habitCreate", h, 201, FALSE)

\* POST /api/habits/templates/:templateId: one habit per template entry,
\* then one rollup of the category
HabitTemplate(S, c) ==
  /\ S \cap DOMAIN habits = {}
  /\ Cardinality(S) = TemplateSize
  /\ UNCHANGED <<logs, now, hist, out, user, procs>>
  /\ note' = NoNote
  /\ IF c \notin DOMAIN categories THEN
       /\ last' = Response("rejected", c, 400, FALSE)
       /\ UNCHANGED <<habits, categories>>
     ELSE
       LET habits2 == [g \in DOMAIN habits \cup S |->
                         IF g \in S THEN NewHabit(c, "boolean") ELSE habits[g]]
       IN  /\ habits' = habits2
           /\ categories' = [categories EXCEPT
                               ![c] = CategoryUpdateStats(@, c, habits2, logs, now)]
           /\ last' = Response("habitTemplate", c, 201, FALSE)

\* PUT /api/habits/:id with a category in the body: the new category must
\* exist; the habit is saved and its own stats are recomputed
HabitMove(h, c) ==
  /\ UNCHANGED <<logs, categories, now, hist, out, user, procs>>
  /\ note' = NoNote
  /\ IF h \notin DOMAIN habits THEN
       /\ last' = Response("rejected", h, 404, FALSE)
       /\ UNCHANGED habits
     ELSE IF c # habits[h].category /\ c \notin DOMAIN categories THEN
       /\ last' = Response("rejected", c, 400, FALSE)
       /\ UNCHANGED habits
     ELSE
       LET edited == [habits[h] EXCEPT !.category = c]
       IN  /\ habits' = [habits EXCEPT ![h] = UpdateStats(edited, FindLogs(logs, h), now)]
           /\ last' = Response("habitMove", h, 200, FALSE)

\* two categories of the user, no habit yet
InitHabits ==
  /\ logs = {}
  /\ habits = <<>>
  /\ categories = [c \in AppCategoryIds |->
       [stats |-> [totalHabits |-> 0, activeHabits |-> 0, completionRate |-> 0]]]
  /\ now = DayTick(1)
  /\ last = Response("none", "none", 0, FALSE)
  /\ hist = {}
  /\ out = OutNone
  /\ user = NewUser
  /\ procs = NoProcs
  /\ note = NoNote

NextHabits ==
  \/ \E h \in HabitPool, c \in AppCategoryIds \cup {"c9"} : HabitCreate(h, c)
  \/ \E S \in SUBSET HabitPool, c \in AppCategoryIds \cup {"c9"} : HabitTemplate(S, c)
  \/ \E h \in HabitPool, a \in BOOLEAN : HabitUpdate(h, <<a>>)
  \/ \E h \in HabitPool, c \in AppCategoryIds \cup {"c9"} : HabitMove(h, c)
  \/ \E h \in HabitPool : HabitDelete(h)

SpecHabits == InitHabits /\ [][NextHabits]_vars

-----------------------------------------------------------------------------
(* Category.updateStats over long runs of logs                             *)

MaxRateDay == 32

\* one habit with a completed log on each day of lo..hi, as POST /api/logs
\* stores them for the dates the caller supplies
RunHistory(lo, hi) ==
  {[habit |-> "h1", date |-> DayTick(d), completed |-> TRUE, value |-> NULL,
    completedAt |-> NewDate(DayTick(d))] : d \in lo..hi}

\* the rollup is asked on the day before the last date a log can carry, at
\* midnight or during the day
InitRate ==
  /\ \E lo \in 1..MaxRateDay, hi \in 1..MaxRateDay :
       /\ lo <= hi
       /\ logs = RunHistory(lo, hi)
  /\ now \in {DayTick(MaxRateDay - 1), DayTick(MaxRateDay - 1) + 1}
  /\ habits = [h \in {"h1"} |->
                 UpdateStats(NewHabit("c1", "boolean"), FindLogs(logs, h), now)]
  /\ categories = [c \in {"c1"} |->
       [stats |-> [totalHabits |-> 1, activeHabits |-> 1, completionRate |-> 0]]]
  /\ last = Response("none", "none", 0, FALSE)
  /\ hist = {}
  /\ out = OutNone
  /\ user = NewUser
  /\ procs = NoProcs
  /\ note = NoNote

NextRate == \E c \in DOMAIN categories : CategoryStats(c)

SpecRate == InitRate /\ [][NextRate]_vars

-----------------------------------------------------------------------------
(* The e-mail verification code of a user                                  *)

\* the clock of this part counts steps of five minutes
MaxEmailTime == 5

\* 15 * 60 * 1000 ms, in steps of five minutes
CodeLifetime == 3

\* six-digit codes Math.random can give, and one more a caller can type
Codes == {"111111", "222222"}

TypedCodes == Codes \cup {"999999"}

\* the three fields as the schema defaults leave them; null is <<>>
NewAccount ==
  [isEmailVerified |-> FALSE,
   emailVerificationCode |-> <<>>,
   emailVerificationExpires |-> <<>>]

\* userSchema.methods.generateEmailVerificationCode, code the drawn number
generateEmailVerificationCode(doc, code, clock) ==
  [doc EXCEPT !.emailVerificationCode = <<code>>,
              !.emailVerificationExpires = <<clock + CodeLifetime>>]

\* verifyEmailCode that does not clear the code it accepted
verifyEmailCode_KeepsCode(doc, code, clock) ==
  IF doc.emailVerificationCode = <<>> \/ doc.emailVerificationExpires = <<>>
  THEN [ok |-> FALSE, doc |-> doc]
  ELSE IF /\ doc.emailVerificationCode = <<code>>
          /\ doc.emailVerificationExpires[1] > clock
       THEN [ok |-> TRUE, doc |-> [doc EXCEPT !.isEmailVerified = TRUE]]
       ELSE [ok |-> FALSE, doc |-> doc]

\* userSchema.methods.verifyEmailCode: the returned value and the document
verifyEmailCode(doc, code, clock) ==
  IF doc.emailVerificationCode = <<>> \/ doc.emailVerificationExpires = <<>>
  THEN [ok |-> FALSE, doc |-> doc]
  ELSE IF /\ doc.emailVerificationCode = <<code>>
          /\ doc.emailVerificationExpires[1] > clock
       THEN [ok |-> TRUE,
             doc |-> [doc EXCEPT !.isEmailVerified = TRUE,
                                 !.emailVerificationCode = <<>>,
                                 !.emailVerificationExpires = <<>>]]
       ELSE [ok |-> FALSE, doc |-> doc]

\* what the calls so far were: the code generated last, when, and whether it
\* was accepted since
NoCodeYet == [generated |-> FALSE, code |-> "none", at |-> 0, accepted |-> FALSE]

NoCall == [op |-> "none", code |-> "none", at |-> 0, ok |-> FALSE,
           before |-> NewAccount, acceptedBefore |-> FALSE]

GenerateCode(code) ==
  /\ user' = generateEmailVerificationCode(user, code, now)
  /\ note' = [generated |-> TRUE, code |-> code, at |-> now, accepted |-> FALSE]
  /\ out' = [NoCall EXCEPT !.op = "generate", !.code = code, !.at = now,
                           !.before = user, !.acceptedBefore = note.accepted]
  /\ UNCHANGED <<logs, habits, categories, now, last, hist, procs>>

VerifyCode(code) ==
  LET r == verifyEmailCode(user, code, now) IN
  /\ user' = r.doc
  /\ note' = [note EXCEPT !.accepted = @ \/ r.ok]
  /\ out' = [op |-> "verify", code |-> code, at |-> now, ok |-> r.ok,
             before |-> user, acceptedBefore |-> note.accepted]
  /\ UNCHANGED <<logs, habits, categories, now, last, hist, procs>>

Elapse ==
  /\ now < MaxEmailTime
  /\ now' = now + 1
  /\ UNCHANGED <<logs, habits, categories, last, hist, out, user, procs, note>>

InitEmail ==
  /\ logs = {}
  /\ habits = [h \in {"h1"} |-> NewHabit("c1", "boolean")]
  /\ categories = [c \in {"c1"} |->
       [stats |-> [totalHabits |-> 1, activeHabits |-> 1, completionRate |-> 0]]]
  /\ now = 0
  /\ last = Response("none", "none", 0, FALSE)
  /\ hist = {}
  /\ out = NoCall
  /\ user = NewAccount
  /\ procs = NoProcs
  /\ note = NoCodeYet

NextEmail ==
  \/ \E code \in Codes : GenerateCode(code)
  \/ \E code \in TypedCodes : VerifyCode(code)
  \/ Elapse

SpecEmail == InitEmail /\ [][NextEmail]_vars

-----------------------------------------------------------------------------
(* Reference notions the properties are stated with *)

\* the dates of the completed logs of a log set
CompletedDates(S) == {l.date : l \in {x \in S : x.completed}}

\* the k calendar days ending at date d all carry a completed log
IsRun(S, d, k) ==
  \A j \in 0..(k - 1) : (d - j * TicksPerDay) \in CompletedDates(S)

\* length of the longest run of completed logs on consecutive calendar days
LongestRun(S) ==
  CHOOSE k \in 0..Cardinality(S) :
    /\ k > 0 => \E l \in S : IsRun(S, l.date, k)
    /\ \A k2 \in (k + 1)..Cardinality(S) : ~ \E l \in S : IsRun(S, l.date, k2)

\* the most recent log of a non-empty log set
MostRecent(S) == CHOOSE l \in S : \A y \in S : y.date <= l.date

\* completed logs on consecutive calendar days counted back from the most
\* recent log
TrailingRun(S) ==
  IF S = {} THEN 0
  ELSE CHOOSE k \in 0..Cardinality(S) :
         /\ IsRun(S, MostRecent(S).date, k)
         /\ ~ IsRun(S, MostRecent(S).date, k + 1)

\* r is the whole-percent share, halves rounded up, of completed logs among
\* the logs dated inside the trailing window (0 when the window is empty)
IsWindowRate(r, S, clock) ==
  LET inside == Cardinality({l \in S : l.date >= clock - WindowDays * TicksPerDay})
      done   == Cardinality({l \in S : /\ l.date >= clock - WindowDays * TicksPerDay
                                       /\ l.completed})
  IN  IF inside = 0 THEN r = 0
      ELSE /\ 2 * inside * r <= 200 * done + inside
           /\ 200 * done + inside < 2 * inside * (r + 1)

\* sum of the values of a set of logs, a log without value counting 0
RECURSIVE ValueTotal(_, _)
ValueTotal(V, S) ==
  IF V = {} THEN 0
  ELSE LET v == CHOOSE x \in V : TRUE
       IN  v * Cardinality({l \in S : l.value = v}) + ValueTotal(V \ {v}, S)

\* date of the most recent completed log, NULL when there is none
LastCompletedDate(S) ==
  IF CompletedDates(S) = {} THEN NULL
  ELSE CHOOSE d \in CompletedDates(S) : \A e \in CompletedDates(S) : e <= d

-----------------------------------------------------------------------------
(* Properties *)

\* C1: after any sequence of log creates, updates and deletes, each run to
\* the end of its triggered recompute, the cached stats.totalCompletions of
\* a habit is the number of its stored logs with completed = true.
C1_TotalCompletionsMatchesLogs ==
  \A h \in DOMAIN habits :
    habits[h].stats.totalCompletions =
      Cardinality({l \in logs : l.habit = h /\ l.completed})

\* a delete has just been answered and left one completed log behind
C1_Witness ==
  /\ last.op = "logDelete" /\ last.status = 200
  /\ habits["h1"].stats.totalCompletions = 1
  /\ Cardinality(logs) = 1

\* C2: with a stored watermark of 0, Habit.updateStats stores
\* streak.longest = the length of the longest run of completed logs on
\* consecutive calendar days, a date gap ending a run as an incomplete log
\* does (completed days 1,2,3,5 give longest = 3).
C2_LongestIsLongestRun ==
  out.ranUpdateStats => out.habit.streak.longest = LongestRun(hist)

\* C3: when the most recent log is completed, the current streak is the
\* number of completed logs on consecutive days counted back from it, in
\* Habit.updateStats and in Log.getStreakInfo.
C3_CurrentIsTrailingRun ==
  (hist # {} /\ MostRecent(hist).completed) =>
    /\ out.ranUpdateStats => out.habit.streak.current = TrailingRun(hist)
    /\ out.ranGetStreakInfo => out.info.currentStreak = TrailingRun(hist)

\* C4: when the most recent log is not completed the current streak is 0,
\* in Habit.updateStats and in Log.getStreakInfo.
C4_CurrentZeroAfterIncomplete ==
  (hist # {} /\ ~ MostRecent(hist).completed) =>
    /\ out.ranUpdateStats => out.habit.streak.current = 0
    /\ out.ranGetStreakInfo => out.info.currentStreak = 0

\* C5: removing an incomplete log from the history (the day then has no log
\* at all) changes neither the current nor the longest streak, in
\* Habit.updateStats (watermark 0) and in Log.getStreakInfo.
C5_MissingDayLikeIncompleteDay ==
  \A l \in {x \in hist : ~ x.completed} :
    LET without == hist \ {l}
        u == UpdateStats(NewHabit("c1", "boolean"), FindLogs(without, "h1"), now)
        g == getStreakInfo(without, "h1")
    IN  /\ out.ranUpdateStats =>
             /\ out.habit.streak.current = u.streak.current
             /\ out.habit.streak.longest = u.streak.longest
        /\ out.ranGetStreakInfo =>
             /\ out.info.currentStreak = g.currentStreak
             /\ out.info.longestStreak = g.longestStreak

\* C6: Log.getStreakInfo returns longestStreak = the maximum length of a run
\* of completed logs on consecutive calendar days; an entry after a gap
\* starts a new run and is not counted into the run before the gap.
C6_InfoLongestIsLongestRun ==
  out.ranGetStreakInfo => out.info.longestStreak = LongestRun(hist)

\* C7: across log creations, updates, deletions and recomputes run one at a
\* time, stats.bestStreak of a habit never decreases; a recompute stores
\* max(stored bestStreak, freshly computed longest streak).
C7_BestStreakNeverDecreases ==
  [][\A h \in (DOMAIN habits) \cap (DOMAIN habits') :
       /\ habits'[h].stats.bestStreak >= habits[h].stats.bestStreak
       /\ Recomputed(h)' =>
            habits'[h].stats.bestStreak =
              Max(habits[h].stats.bestStreak,
                  HabitStreak(FindLogs(logs', h)).longestStreak)]_vars

\* a delete shortened the history below the stored watermark
C7_Witness ==
  /\ last.op = "logDelete" /\ last.status = 200
  /\ habits["h1"].stats.bestStreak >
       HabitStreak(FindLogs(logs, "h1")).longestStreak

\* C8 as stated: after a recompute every derived field of the habit equals
\* what a computation over the current logs alone, starting from an empty
\* cache, gives.
C8_CacheEqualsFromScratch ==
  \A h \in DOMAIN habits :
    Recomputed(h) =>
      LET scratch == UpdateStats(NewHabit(habits[h].category, habits[h].targetType),
                                 FindLogs(logs, h), now)
      IN  habits[h].streak = scratch.streak /\ habits[h].stats = scratch.stats

\* C8 amended: after a recompute, streak.current, streak.lastCompletedDate,
\* stats.totalCompletions, stats.completionRate and stats.averageValue are
\* the values computed from the current logs alone (at the current clock);
\* streak.longest and stats.bestStreak are watermarks, never below the
\* longest streak computed from the current logs but possibly above it.
C8_CacheEqualsFromScratchUpToWatermark ==
  \A h \in DOMAIN habits :
    Recomputed(h) =>
      LET S       == LogsOf(logs, h)
          done    == {l \in S : l.completed}
          scratch == HabitStreak(FindLogs(logs, h))
      IN  /\ habits[h].stats.totalCompletions = Cardinality(done)
          /\ IsWindowRate(habits[h].stats.completionRate, S, now)
          /\ habits[h].streak.lastCompletedDate = LastCompletedDate(S)
          /\ habits[h].streak.current = scratch.currentStreak
          /\ (done = {} \/ habits[h].targetType = "boolean") =>
                habits[h].stats.averageValue = 0
          /\ (done # {} /\ habits[h].targetType # "boolean") =>
                habits[h].stats.averageValue =
                  RoundDiv(100 * ValueTotal(Values, done), Cardinality(done))
          /\ habits[h].streak.longest >= scratch.longestStreak
          /\ habits[h].stats.bestStreak >= scratch.longestStreak

\* after a delete the cache keeps a longest streak the remaining logs do
\* not show
C8_Witness ==
  /\ last.op = "logDelete" /\ last.status = 200
  /\ habits["h1"].streak.longest = 2
  /\ habits["h1"].streak.current = 1
  /\ habits["h1"].stats.totalCompletions = 1

C10_EmptyCategoryRateZero ==
  \A c \in DOMAIN categories :
    (last.op = "categoryStats" /\ last.target = c /\ ActiveHabitsIn(habits, c) = {}) =>
       /\ last.status = 200
       /\ categories[c].stats.completionRate = 0

\* the rollup ran on a category whose only habit is inactive and has a
\* completed log inside the window
C10_Witness ==
  /\ last.op = "categoryStats" /\ last.target = "c1" /\ last.status = 200
  /\ ActiveHabitsIn(habits, "c1") = {}
  /\ \E l \in logs :
       /\ l.habit \in HabitsIn(habits, "c1")
       /\ l.completed
       /\ l.date >= now - WindowDays * TicksPerDay

\* the current streak of habit h as the streak query reports it
CurrentStreakOf(h) == getStreakInfo(logs, h).currentStreak

\* the sum of the current streaks of the habits hs
RECURSIVE SumCurrentStreaks(_)
SumCurrentStreaks(hs) ==
  IF hs = {} THEN 0
  ELSE LET h == CHOOSE x \in hs : TRUE
       IN  CurrentStreakOf(h) + SumCurrentStreaks(hs \ {h})

ActiveHabits == {h \in DOMAIN habits : habits[h].isActive}

UserRecomputed ==
  last.status = 200 /\ last.op \in {"userProfile", "userStats"}

\* C11: after User.updateStats (GET /users/profile) or the GET /users/stats
\* handler has run, the stored user currentStreak is the sum of the current
\* streaks of the user's active habits.
C11_UserCurrentIsSumOverActiveHabits ==
  UserRecomputed =>
    user.stats.currentStreak = SumCurrentStreaks(ActiveHabits)

\* C12: after User.updateStats (GET /users/profile) or the GET /users/stats
\* handler has run, the stored user longestStreak is max(previously stored,
\* maximum longest streak over the user's habits); in particular it is not
\* lower than the longest streak of any single (active) habit, its longest
\* run of completed logs on consecutive days.
C12_UserLongestCoversEveryHabit ==
  UserRecomputed =>
    \A h \in ActiveHabits :
       user.stats.longestStreak >= LongestRun(LogsOf(logs, h))

\* the request just answered created, updated or deleted a log
LogMutated ==
  last.status = 200 /\ last.op \in {"logUpsert", "logUpdate", "logDelete"}

\* C13: a log create, update or delete leaves the stats of every category
\* and of the user unchanged, and leaves every habit other than the log's
\* own as it was.
C13_LogMutationTouchesOnlyOwner ==
  [][LogMutated' =>
       /\ categories' = categories
       /\ user' = user
       /\ \A h \in DOMAIN habits \ {last'.target} :
            h \in DOMAIN habits' /\ habits'[h] = habits[h]]_vars

\* a log of h1 was deleted while the other habit holds a completion and
\* the category of h1 still shows the rate computed before the delete
C13_Witness ==
  /\ last.op = "logDelete" /\ last.target = "h1" /\ last.status = 200
  /\ "h2" \in DOMAIN habits /\ habits["h2"].stats.totalCompletions = 1
  /\ habits["h1"].stats.totalCompletions = 0
  /\ "c1" \in DOMAIN categories /\ categories["c1"].stats.completionRate > 0

\* C17: every stored log has a completedAt exactly when it is completed.
C17_CompletedAtIffCompleted ==
  \A l \in logs : (l.completedAt # NULL) <=> l.completed

\* a log update was saved, and the collection holds a completed log with
\* its stamp and a log that was completed before and is not any more
C17_Witness ==
  /\ last.op = "logUpdate" /\ last.status = 200
  /\ \E l \in logs : l.completed /\ l.completedAt # NULL
  /\ \E l \in logs : ~l.completed /\ l.completedAt = NULL
  /\ habits["h1"].stats.bestStreak > Cardinality({l \in logs : l.completed})

\* C18: a category delete removes the category, every habit that belonged
\* to it and every log of those habits, and leaves the habits and logs of
\* the other categories as they were.
C18_CategoryDeleteCascades ==
  [][(last'.op = "categoryDelete" /\ last'.status = 200) =>
       LET c    == last'.target
           gone == HabitsIn(habits, c)
       IN  /\ c \notin DOMAIN categories'
           /\ DOMAIN habits' = DOMAIN habits \ gone
           /\ \A h \in DOMAIN habits' : habits'[h] = habits[h]
           /\ logs' = {l \in logs : l.habit \notin gone}
           /\ \A d \in DOMAIN categories \ {c} :
                d \in DOMAIN categories' /\ categories'[d] = categories[d]]_vars

\* category c1 was deleted, and the habit of the other category still has
\* its completed log and its stats
C18_Witness ==
  /\ last.op = "categoryDelete" /\ last.target = "c1" /\ last.status = 200
  /\ DOMAIN habits = {"h2"}
  /\ \E l \in logs : l.habit = "h2" /\ l.completed
  /\ habits["h2"].stats.totalCompletions = 1

\* C20: a range request whose start date is after its end date is answered
\* with a 400 and the log collection is not queried.
C20_InvertedRangeRejected ==
  (note.range # <<>> /\ note.range[1] > note.range[2]) =>
    (last.status = 400 /\ ~note.queried)

\* both requests have been answered
Quiescent == \A p \in Procs : procs[p].pc = "done"

\* the habit a request is about
HabitOf(req) == req.entries[1].habit

\* the database the run started from
InitialDb == [logs |-> hist, habits |-> HabitsOver(hist, now)]

\* C14: when two requests on the logs of two different habits have run
\* interleaved, each habit's streak and stats (and the logs) are what
\* running the two requests one after the other gives, in either order.
C14_DistinctHabitsAsSequential ==
  (Quiescent /\ HabitOf(procs["p1"].req) # HabitOf(procs["p2"].req)) =>
     LET r1 == procs["p1"].req
         r2 == procs["p2"].req
     IN  /\ Db = SeqRun(InitialDb, <<r1, r2>>, now)
         /\ Db = SeqRun(InitialDb, <<r2, r1>>, now)

\* two requests on different habits have been answered with success, and
\* each habit's cache counts a completion
C14_Witness ==
  /\ Quiescent
  /\ HabitOf(procs["p1"].req) # HabitOf(procs["p2"].req)
  /\ \A p \in Procs : procs[p].status = 200
  /\ \A h \in DOMAIN habits : habits[h].stats.totalCompletions >= 1

\* C15: when two requests on the logs of one habit have run interleaved,
\* no update is lost: the habit's cached totalCompletions and current
\* streak are the values computed from the final logs.
C15_SameHabitNoLostUpdate ==
  (Quiescent /\ HabitOf(procs["p1"].req) = HabitOf(procs["p2"].req)) =>
     LET h == HabitOf(procs["p1"].req)
     IN  /\ habits[h].stats.totalCompletions = TotalCompletions(FindLogs(logs, h))
         /\ habits[h].streak.current = HabitStreak(FindLogs(logs, h)).currentStreak

\* C16: no two stored logs have the same habit and date, and every stored
\* date is a midnight.
C16_OneLogPerHabitAndDate ==
  /\ \A l1 \in logs, l2 \in logs :
       (l1.habit = l2.habit /\ l1.date = l2.date) => l1 = l2
  /\ \A l \in logs : l.date = StartOfDay(l.date)

\* two create-or-update requests for the same habit and day, one of them
\* naming an instant inside the day, have been answered; one log is stored
C16_Witness ==
  /\ Quiescent
  /\ \A p \in Procs : procs[p].req.kind \in {"upsert", "bulk"}
  /\ \E p \in Procs : procs[p].req.entries[1].date # StartOfDay(procs[p].req.entries[1].date)
  /\ \E p \in Procs : procs[p].status = 500
  /\ Cardinality(logs) = 1

\* the stored aggregate the request just answered was to refresh differs
\* from what its recompute gives
StoredIsOld ==
  CASE last.op \in {"logDelete", "habitStats"} ->
         habits[last.target] #
           UpdateStats(habits[last.target], FindLogs(logs, last.target), now)
    [] last.op = "categoryStats" ->
         categories[last.target] #
           CategoryUpdateStats(categories[last.target], last.target, habits, logs, now)
    [] last.op = "userProfile" -> user # UserUpdateStats(user, habits, logs)
    [] last.op = "userStats" -> user # UserStatsRollup(user, habits, logs)
    [] OTHER -> FALSE

\* C19: when the save of a recomputed habit, category or user aggregate
\* fails and the stored stats stay at their old values, the request is not
\* answered with success.
C19_SaveFailureSurfaced ==
  (note.saveFailed /\ StoredIsOld) => last.status >= 400

\* C21: when the post hook of a saved or deleted log finds no habit, the
\* request is answered with an error (NotFound), not with success.
C21_MissingHabitReported ==
  [][\A p \in Procs :
       (/\ procs[p].pc = "hookHabit"
        /\ HabitOf(procs[p].req) \notin DOMAIN habits
        /\ procs'[p].pc = "done")
       => procs'[p].status >= 400]_vars

\* the completed logs of the user inside the window the handler computed
InWindow == {l \in logs : /\ l.completed
                          /\ l.date >= out.startDate
                          /\ l.date <= out.endDate}

\* habits are created in the order h1, h2
CreationRank(h) == IF h = "h1" THEN 1 ELSE 2

\* a before b in the list the claim describes
RanksBefore(a, b) ==
  \/ Completions(InWindow, a) > Completions(InWindow, b)
  \/ /\ Completions(InWindow, a) = Completions(InWindow, b)
     /\ CreationRank(a) < CreationRank(b)

\* C22: the top-habits list holds the (at most five) habits with completed
\* logs in the range, by completions descending, ties by creation order.
C22_TopHabitsDetermined ==
  out.ranDashboard =>
    LET G == {l.habit : l \in InWindow}
        s == out.topHabits
    IN  /\ Len(s) = Cardinality(G)
        /\ \A i \in DOMAIN s : s[i].completions = Completions(InWindow, s[i].habit)
        /\ \A i, j \in DOMAIN s : i < j => RanksBefore(s[i].habit, s[j].habit)

\* C23: consistencyScore = round(100 * D / N), D the distinct dates in the
\* window with a completed log.
C23_ConsistencyScore ==
  out.ranDashboard =>
    out.consistencyScore =
      RoundDiv(100 * Cardinality({StartOfDay(l.date) : l \in InWindow}), out.days)

\* C24: for a habit without a stored watermark, the streak stored by
\* Habit.updateStats equals the streak Log.getStreakInfo returns.
C24_StoredStreakEqualsStreakInfo ==
  (out.ranUpdateStats /\ out.ranGetStreakInfo) =>
    /\ out.habit.streak.current = out.info.currentStreak
    /\ out.habit.streak.longest = out.info.longestStreak

\* C29: the current streak never exceeds the longest streak, in the habit
\* stored by Habit.updateStats and in the result of Log.getStreakInfo.
C29_CurrentAtMostLongest ==
  /\ out.ranUpdateStats => out.habit.streak.current <= out.habit.streak.longest
  /\ out.ranGetStreakInfo => out.info.currentStreak <= out.info.longestStreak


C29_Witness ==
  /\ out.ranUpdateStats
  /\ out.ranGetStreakInfo
  /\ out.habit.streak.current >= 2
  /\ out.habit.streak.longest > out.habit.streak.current
  /\ out.info.currentStreak >= 2


\* C25: no step of interleaved requests lowers a stored watermark
\* (stats.bestStreak, streak.longest) of a habit.
C25_WatermarkNeverDecreases ==
  [][\A h \in DOMAIN habits :
       /\ habits'[h].stats.bestStreak >= habits[h].stats.bestStreak
       /\ habits'[h].streak.longest >= habits[h].streak.longest]_vars


\* C26: after habit creations, template creations, updates and deletions,
\* every category's stored activeHabits is the number of its active habits.
C26_ActiveHabitsCurrent ==
  \A c \in DOMAIN categories :
    categories[c].stats.activeHabits = Cardinality(ActiveHabitsIn(habits, c))


\* C27: after Category.updateStats, totalHabits is the number of habits of
\* the category, active or not, and activeHabits the number of active ones.
C27_CategoryCountsAllHabits ==
  (last.op = "categoryStats" /\ last.status = 200) =>
    LET c == last.target IN
    /\ categories[c].stats.totalHabits = Cardinality(HabitsIn(habits, c))
    /\ categories[c].stats.activeHabits = Cardinality(ActiveHabitsIn(habits, c))


\* C28: the completionRate a category stores is an integer of 0..100.
C28_CategoryRateIsPercentage ==
  \A c \in DOMAIN categories : categories[c].stats.completionRate \in 0..100


\* C30: verifyEmailCode returns true, and marks the e-mail verified, only
\* for the code generated last, before its expiry and not yet accepted; a
\* call after an acceptance returns false until a new code is generated; a
\* call that returns false changes nothing.
C30_VerifyOnlyFreshCode ==
  (out.op = "verify") =>
    /\ out.ok => /\ note.generated
                 /\ out.code = note.code
                 /\ out.at < note.at + CodeLifetime
                 /\ ~out.acceptedBefore
                 /\ user.isEmailVerified
    /\ out.acceptedBefore => ~out.ok
    /\ ~out.ok => user = out.before

C30_Witness ==
  /\ out.op = "verify"
  /\ out.ok
  /\ out.at > note.at
  /\ user.isEmailVerified

====
